---- MODULE Spec2Model ----
(***************************************************************************)
(* A model of markdown_it/ruler.py (class Ruler) and of                    *)
(* markdown_it/rules_core/smartquotes.py (smartquotes, process_inlines).   *)
(***************************************************************************)
EXTENDS Integers, Sequences, FiniteSets, TLC

\* ------------------------------------------------------------------ bounds

\* The largest number of rules a Ruler of the model holds.
MaxRules == 3
\* The longest list of names handed to enable, disable and enableOnly.
MaxNames == 2

\* ------------------------------------------------------------ input domains

\* Names given to new rules, and the names calls look up: one is never registered.
RuleNames == {"A", "B"}
LookupNames == RuleNames \cup {"missing"}
\* The (fn, options["alt"]) of a new or replaced rule.
RulePayloads == {[fn |-> "f1", alt |-> <<>>], [fn |-> "f2", alt |-> <<"alt">>]}
\* The chain names getRules is asked for: "other" is the alt chain of no rule.
ChainNames == {"", "alt", "other"}

Range(s) == {s[k] : k \in DOMAIN s}

\* The lists of at most n different elements of S.
RECURSIVE ListsUpTo(_, _)
ListsUpTo(S, n) ==
    IF n = 0 THEN {<<>>}
    ELSE LET shorter == ListsUpTo(S, n - 1)
         IN  shorter \cup {Append(s, x) : s \in {t \in shorter : Len(t) = n - 1}, x \in S}

\* The `names` argument of enable, disable, enableOnly: a str or a list of str.
NamesArgs ==
    {[isStr |-> TRUE, str |-> n, list |-> <<>>] : n \in LookupNames}
    \cup {[isStr |-> FALSE, str |-> "", list |-> l] : l \in {s \in ListsUpTo(LookupNames, MaxNames) :
                                                        Cardinality(Range(s)) = Len(s)}}

VARIABLES
    rules,      \* Ruler.__rules__: the list of Rule(name, enabled, fn, alt)
    cache,      \* Ruler.__cache__: None, or a dict chain name -> list of fn
    last,       \* the last Ruler call: its name, whether it raised KeyError, what it returned
    probe,      \* history: a completed disable(X) of an enabled rule X (X, its fn, what
                \* getRules returned before it), and whether enable(X) followed
    logging,    \* whether `call` is kept (fixed in a behaviour)
    call        \* history, when logging: the last call's arguments, and the rules and
                \* the cache it started from

VARIABLES
    tokens,     \* state.tokens: the token stream, inline tokens holding their children
    options,    \* state.md.options: typographer and the four quote glyphs
    frame,      \* where smartquotes / process_inlines stands, and process_inlines' locals
    hist        \* history: the run (1 or 2), the tokens before the first run and after
                \* it, and what the last step of the scan did

rulerVars == <<rules, cache, last, probe, logging, call>>
quoteVars == <<tokens, options, frame, hist>>
vars == <<rules, cache, last, probe, logging, call, tokens, options, frame, hist>>

\* No smartquotes run: the state of these variables in a behaviour of the Ruler alone.
QuotesIdle ==
    /\ tokens = <<>>
    /\ options = [typographer |-> FALSE, quotes |-> <<>>]
    /\ frame = [pc |-> "idle"]
    /\ hist = [run |-> 0]

\* ------------------------------------------------------------------- Ruler

Rule(name, enabled, fn, alt) == [name |-> name, enabled |-> enabled, fn |-> fn, alt |-> alt]

\* __cache__ is None
CacheNone == [some |-> FALSE, dict |-> [c \in {} |-> <<>>]]
CacheOf(d) == [some |-> TRUE, dict |-> d]

FindLastMatch(rs, name) ==
    IF \E k \in 1..Len(rs) : rs[k].name = name
    THEN (CHOOSE k \in 1..Len(rs) :
            /\ rs[k].name = name
            /\ \A m \in (k + 1)..Len(rs) : rs[m].name # name) - 1
    ELSE -1

\* Ruler.__find__: the 0-based index of the first rule with the name, or -1.
Find(rs, name) ==
    IF \E k \in 1..Len(rs) : rs[k].name = name
    THEN (CHOOSE k \in 1..Len(rs) :
            /\ rs[k].name = name
            /\ \A m \in 1..(k - 1) : rs[m].name # name) - 1
    ELSE -1

\* The functions of the enabled rules of one chain, in list order
\* (the inner loop of __compile__).
ChainFns(rs, chain) ==
    LET sel == SelectSeq(rs, LAMBDA r : r.enabled /\ (chain = "" \/ chain \in Range(r.alt)))
    IN  [k \in 1..Len(sel) |-> sel[k].fn]

\* Ruler.__compile__: the dict chain -> functions, for "" and every alt chain of an enabled rule.
Compile(rs) ==
    LET chains == {""} \cup UNION {Range(rs[k].alt) : k \in {m \in 1..Len(rs) : rs[m].enabled}}
    IN  [c \in chains |-> ChainFns(rs, c)]

InsertAtEnd(s, index, x) == Append(s, x)

\* list.insert(index, x), index 0-based and within the list.
InsertAt(s, index, x) == SubSeq(s, 1, index) \o <<x>> \o SubSeq(s, index + 1, Len(s))

\* isinstance(names, str): names = [names]
AsList(arg) == IF arg.isStr THEN <<arg.str>> ELSE arg.list

\* The loop of enable (flag = TRUE) and disable (flag = FALSE) from its k-th name on:
\* the rules and the result list when it ends, and whether it ended by raising KeyError.
RECURSIVE SetLoop(_, _, _, _, _, _)
SetLoop(rs, names, k, ignoreInvalid, flag, result) ==
    IF k > Len(names) THEN [rules |-> rs, raised |-> FALSE, result |-> result]
    ELSE LET idx == Find(rs, names[k])
         IN  IF idx < 0 /\ ignoreInvalid
                THEN SetLoop(rs, names, k + 1, ignoreInvalid, flag, result)
             ELSE IF idx < 0 /\ ~ignoreInvalid
                THEN [rules |-> rs, raised |-> TRUE, result |-> result]
             ELSE SetLoop([rs EXCEPT ![idx + 1].enabled = flag], names, k + 1,
                          ignoreInvalid, flag, Append(result, names[k]))

CacheAfterSetKept(raised, c) == c

\* The cache after the loop of enable or disable: `self.__cache__ = None` follows the
\* loop, and a raise in the loop skips it.
CacheAfterSet(raised, c) == IF raised THEN c ELSE CacheNone

AllDisabledNoop(rs) == rs

\* enableOnly: for rule in self.__rules__: rule.enabled = False
AllDisabled(rs) == [k \in 1..Len(rs) |-> [rs[k] EXCEPT !.enabled = FALSE]]

\* getRules: compile when the cache is None, then read the cache.
CacheRead(rs, c) == IF c.some THEN c.dict ELSE Compile(rs)

\* What getRules returns: self.__cache__.get(chainName, []) or []
GetRulesResult(rs, c, chainName) ==
    LET d == CacheRead(rs, c)
    IN  IF chainName \in DOMAIN d THEN d[chainName] ELSE <<>>

\* What getRules returns for every chain name.
View(rs, c) == [ch \in ChainNames |-> GetRulesResult(rs, c, ch)]

\* get_all_rules, get_active_rules
AllRules(rs) == [k \in 1..Len(rs) |-> rs[k].name]
ActiveRules(rs) ==
    LET sel == SelectSeq(rs, LAMBDA r : r.enabled)
    IN  [k \in 1..Len(sel) |-> sel[k].name]

\* The outcome of a call: ret is the list returned (none for at, before, after, push,
\* enableOnly and for a call that raised).
Call(op, raised, ret) == [op |-> op, raised |-> raised, ret |-> ret]

NoProbe ==
    [on |-> FALSE, phase |-> "", name |-> "", fn |-> "", view |-> [ch \in ChainNames |-> <<>>]]

NoCall ==
    [op |-> "none", anchor |-> "", name |-> "", fn |-> "", alt |-> <<>>, names |-> <<>>,
     ignoreInvalid |-> FALSE, chain |-> "", pre |-> <<>>, preCache |-> CacheNone]

\* The history record of a call with arguments c, started in the current state.
Logged(c) == IF logging THEN [c EXCEPT !.pre = rules, !.preCache = cache] ELSE NoCall

At(ruleName, fn, alt) ==
    LET index == Find(rules, ruleName)
    IN  /\ IF index = -1
           THEN /\ UNCHANGED <<rules, cache>>
                /\ last' = Call("at", TRUE, <<>>)
           ELSE /\ rules' = [rules EXCEPT ![index + 1].fn = fn, ![index + 1].alt = alt]
                /\ cache' = CacheNone
                /\ last' = Call("at", FALSE, <<>>)
        /\ probe' = NoProbe
        /\ call' = Logged([NoCall EXCEPT !.op = "at", !.anchor = ruleName, !.fn = fn,
                                         !.alt = alt])
        /\ UNCHANGED <<logging, quoteVars>>

Before(beforeName, ruleName, fn, alt) ==
    LET index == Find(rules, beforeName)
    IN  /\ IF index = -1
           THEN /\ UNCHANGED <<rules, cache>>
                /\ last' = Call("before", TRUE, <<>>)
           ELSE /\ Len(rules) < MaxRules
                /\ rules' = InsertAt(rules, index, Rule(ruleName, TRUE, fn, alt))
                /\ cache' = CacheNone
                /\ last' = Call("before", FALSE, <<>>)
        /\ probe' = NoProbe
        /\ call' = Logged([NoCall EXCEPT !.op = "before", !.anchor = beforeName,
                                         !.name = ruleName, !.fn = fn, !.alt = alt])
        /\ UNCHANGED <<logging, quoteVars>>

After(afterName, ruleName, fn, alt) ==
    LET index == Find(rules, afterName)
    IN  /\ IF index = -1
           THEN /\ UNCHANGED <<rules, cache>>
                /\ last' = Call("after", TRUE, <<>>)
           ELSE /\ Len(rules) < MaxRules
                /\ rules' = InsertAt(rules, index + 1, Rule(ruleName, TRUE, fn, alt))
                /\ cache' = CacheNone
                /\ last' = Call("after", FALSE, <<>>)
        /\ probe' = NoProbe
        /\ call' = Logged([NoCall EXCEPT !.op = "after", !.anchor = afterName,
                                         !.name = ruleName, !.fn = fn, !.alt = alt])
        /\ UNCHANGED <<logging, quoteVars>>

Push(ruleName, fn, alt) ==
    /\ Len(rules) < MaxRules
    /\ rules' = Append(rules, Rule(ruleName, TRUE, fn, alt))
    /\ cache' = CacheNone
    /\ last' = Call("push", FALSE, <<>>)
    /\ probe' = NoProbe
    /\ call' = Logged([NoCall EXCEPT !.op = "push", !.name = ruleName, !.fn = fn, !.alt = alt])
    /\ UNCHANGED <<logging, quoteVars>>

Enable(arg, ignoreInvalid) ==
    LET r == SetLoop(rules, AsList(arg), 1, ignoreInvalid, TRUE, <<>>)
    IN  /\ rules' = r.rules
        /\ cache' = CacheAfterSet(r.raised, cache)
        /\ last' = Call("enable", r.raised, IF r.raised THEN <<>> ELSE r.result)
        /\ probe' = IF probe.on /\ probe.phase = "disabled" /\ ~r.raised
                       /\ AsList(arg) = <<probe.name>>
                    THEN [probe EXCEPT !.phase = "enabled"]
                    ELSE NoProbe
        /\ call' = Logged([NoCall EXCEPT !.op = "enable", !.names = AsList(arg),
                                         !.ignoreInvalid = ignoreInvalid])
        /\ UNCHANGED <<logging, quoteVars>>

EnableOnly(arg, ignoreInvalid) ==
    LET r == SetLoop(AllDisabled(rules), AsList(arg), 1, ignoreInvalid, TRUE, <<>>)
    IN  /\ rules' = r.rules
        /\ cache' = CacheAfterSet(r.raised, cache)
        /\ last' = Call("enableOnly", r.raised, <<>>)
        /\ probe' = NoProbe
        /\ call' = Logged([NoCall EXCEPT !.op = "enableOnly", !.names = AsList(arg),
                                         !.ignoreInvalid = ignoreInvalid])
        /\ UNCHANGED <<logging, quoteVars>>

Disable(arg, ignoreInvalid) ==
    LET names == AsList(arg)
        r == SetLoop(rules, names, 1, ignoreInvalid, FALSE, <<>>)
        idx == Find(rules, names[1])
    IN  /\ rules' = r.rules
        /\ cache' = CacheAfterSet(r.raised, cache)
        /\ last' = Call("disable", r.raised, IF r.raised THEN <<>> ELSE r.result)
        /\ probe' = IF Len(names) = 1 /\ ~r.raised /\ idx >= 0 /\ rules[idx + 1].enabled
                    THEN [on |-> TRUE, phase |-> "disabled", name |-> names[1],
                          fn |-> rules[idx + 1].fn,
                          view |-> View(rules, cache)]
                    ELSE NoProbe
        /\ call' = Logged([NoCall EXCEPT !.op = "disable", !.names = names,
                                         !.ignoreInvalid = ignoreInvalid])
        /\ UNCHANGED <<logging, quoteVars>>

GetRules(chainName) ==
    /\ cache' = CacheOf(CacheRead(rules, cache))
    /\ last' = Call("getRules", FALSE, GetRulesResult(rules, cache, chainName))
    /\ call' = Logged([NoCall EXCEPT !.op = "getRules", !.chain = chainName])
    /\ UNCHANGED <<rules, probe, logging, quoteVars>>

RulerNext ==
    \/ \E n \in RuleNames, p \in RulePayloads : Push(n, p.fn, p.alt)
    \/ \E b \in LookupNames, n \in RuleNames, p \in RulePayloads : Before(b, n, p.fn, p.alt)
    \/ \E b \in LookupNames, n \in RuleNames, p \in RulePayloads : After(b, n, p.fn, p.alt)
    \/ \E n \in LookupNames, p \in RulePayloads : At(n, p.fn, p.alt)
    \/ \E arg \in NamesArgs, ign \in BOOLEAN : Enable(arg, ign)
    \/ \E arg \in NamesArgs, ign \in BOOLEAN : Disable(arg, ign)
    \/ \E arg \in NamesArgs, ign \in BOOLEAN : EnableOnly(arg, ign)
    \/ \E ch \in ChainNames : GetRules(ch)

\* A new Ruler, and every sequence of calls on it.
RulerInit ==
    /\ rules = <<>>
    /\ cache = CacheNone
    /\ last = Call("init", FALSE, <<>>)
    /\ probe = NoProbe
    /\ logging = FALSE
    /\ call = NoCall
    /\ QuotesIdle

SpecRuler == RulerInit /\ [][RulerNext]_vars

\* The rule lists calls can build, and the caches a rule list can be found with: None,
\* or the cache getRules compiled before calls that raised KeyError changed the flags
\* of the first rules of some names (such a call keeps the cache).
RuleSet == {Rule(n, e, p.fn, p.alt) : n \in RuleNames, e \in BOOLEAN, p \in RulePayloads}
RuleLists == ListsUpTo(RuleSet, MaxRules)
CompiledBefore(rs) ==
    LET firsts == {k \in 1..Len(rs) : \A m \in 1..(k - 1) : rs[m].name # rs[k].name}
    IN  {[k \in 1..Len(rs) |-> IF k \in S THEN [rs[k] EXCEPT !.enabled = ~rs[k].enabled]
                                           ELSE rs[k]] : S \in SUBSET firsts}

\* One call, with its arguments logged, on a Ruler with any rule list and a cache that
\* is None or compiled from the list or, for a list of distinct names, compiled before
\* a failed enable or disable set flags.
RulerCallInit ==
    /\ rules \in RuleLists
    /\ cache \in {CacheNone, CacheOf(Compile(rules))}
                 \cup (IF \A i, j \in 1..Len(rules) : i # j => rules[i].name # rules[j].name
                       THEN {CacheOf(Compile(r0)) : r0 \in CompiledBefore(rules)}
                       ELSE {})
    /\ last = Call("init", FALSE, <<>>)
    /\ probe = NoProbe
    /\ logging = TRUE
    /\ call = NoCall
    /\ QuotesIdle

RulerCallNext == call.op = "none" /\ RulerNext

SpecRulerCall == RulerCallInit /\ [][RulerCallNext]_vars

\* ------------------------------------------------------- claims on the Ruler

Registered(rs) == Range(AllRules(rs))
DistinctNames(rs) == \A i, j \in 1..Len(rs) : i # j => rs[i].name # rs[j].name
DistinctFns(rs) == \A i, j \in 1..Len(rs) : i # j => rs[i].fn # rs[j].fn
Mutators == {"push", "before", "after", "at", "enable", "disable", "enableOnly"}
\* What a recomputation from the rules gives for every chain name.
Recomputed(rs) == [ch \in ChainNames |-> ChainFns(rs, ch)]

\* C1: in every reachable state, also after a call that raised KeyError, the cache is
\* None or equal to the recomputation from the current rules, so that getRules(chain)
\* returns the functions of the enabled rules of the chain, in list order.
C1_CacheNoneOrRecomputed ==
    /\ cache.some => cache.dict = Compile(rules)
    /\ View(rules, cache) = Recomputed(rules)

\* C2: with pairwise distinct names and functions, after disable(X) of an enabled rule X
\* no chain's getRules holds X's function, and after a following enable(X) every chain's
\* getRules is the list it was before the disable.
C2_DisableThenEnable ==
    (probe.on /\ DistinctNames(rules) /\ DistinctFns(rules)) =>
        /\ probe.phase = "disabled" =>
              \A ch \in ChainNames : probe.fn \notin Range(GetRulesResult(rules, cache, ch))
        /\ probe.phase = "enabled" => View(rules, cache) = probe.view

\* C3: a completed enableOnly(names) on a Ruler with distinct names leaves active
\* exactly the registered names that occur in names, in registration order, whatever
\* the flags were; every other rule is disabled and the names registered are the same.
C3_EnableOnlyExact ==
    (call.op = "enableOnly" /\ ~last.raised /\ DistinctNames(call.pre)) =>
        /\ ActiveRules(rules) =
               SelectSeq(AllRules(call.pre), LAMBDA n : n \in Range(call.names))
        /\ \A k \in 1..Len(rules) : rules[k].name \notin Range(call.names) => ~rules[k].enabled
        /\ AllRules(rules) = AllRules(call.pre)
\* enableOnly(["B", "A"]) on [A, B], both disabled before, or enableOnly of one of two
\* enabled rules.
C3_Witness ==
    /\ call.op = "enableOnly" /\ ~last.raised
    /\ Len(rules) >= 2 /\ DistinctNames(call.pre)
    /\ \/ call.names = <<"B", "A">> /\ ActiveRules(rules) = <<"A", "B">>
             /\ ActiveRules(call.pre) = <<>>
       \/ Len(call.names) = 1 /\ Len(ActiveRules(call.pre)) = 2
             /\ ActiveRules(rules) = call.names

\* The positions of the names of a list that are not registered, and the first of them.
AbsentAt(rs, names) == {k \in 1..Len(names) : names[k] \notin Registered(rs)}
FirstAbsent(rs, names) ==
    CHOOSE k \in AbsentAt(rs, names) : \A m \in AbsentAt(rs, names) : k <= m
\* rs with the flag set of the first rule of each of the names names[1..n].
FlagsSet(rs, names, n, flag) ==
    [k \in 1..Len(rs) |->
        IF \E j \in 1..n : rs[k].name = names[j] /\ \A m \in 1..(k - 1) : rs[m].name # names[j]
        THEN [rs[k] EXCEPT !.enabled = flag] ELSE rs[k]]
C4_SetLoopOutcome(rs, flag) ==
    /\ last.raised <=> (~call.ignoreInvalid /\ AbsentAt(rs, call.names) # {})
    /\ last.raised => rules = FlagsSet(rs, call.names, FirstAbsent(rs, call.names) - 1, flag)
    /\ ~last.raised => rules = FlagsSet(rs, call.names, Len(call.names), flag)

\* C4: before, after and at raise KeyError iff the name they look up is not registered;
\* enable, disable (and enableOnly) without ignoreInvalid raise iff a name of the list is
\* not registered, and at the first such name: the flags of the names before it are set
\* and no other; with ignoreInvalid they never raise, skip the names not registered and
\* return the registered names of the list, in list order.
C4_NotFoundExactly ==
    /\ call.op \in {"before", "after", "at"} =>
          (last.raised <=> call.anchor \notin Registered(call.pre))
    /\ call.op = "enable" => C4_SetLoopOutcome(call.pre, TRUE)
    /\ call.op = "disable" => C4_SetLoopOutcome(call.pre, FALSE)
    /\ call.op = "enableOnly" =>
          C4_SetLoopOutcome([k \in 1..Len(call.pre) |-> [call.pre[k] EXCEPT !.enabled = FALSE]],
                            TRUE)
    /\ (call.op \in {"enable", "disable"} /\ ~last.raised) =>
          last.ret = SelectSeq(call.names, LAMBDA n : n \in Registered(call.pre))
\* disable(["A", "missing"]) raising after it disabled A, or enable(["missing", "A"],
\* ignoreInvalid=True) returning ["A"].
C4_Witness ==
    \/ /\ call.op = "disable" /\ last.raised /\ call.names = <<"A", "missing">>
       /\ \E k \in 1..Len(rules) : rules[k].name = "A" /\ call.pre[k].enabled
                                     /\ ~rules[k].enabled
    \/ /\ call.op = "enable" /\ call.ignoreInvalid /\ call.names = <<"missing", "A">>
       /\ last.ret = <<"A">>

\* C5: the list of names changes only by push (the name is appended), before and after
\* (the name is inserted directly before, or after, the first rule with the anchor's
\* name, the rules there already keeping their order); every other call, and every call
\* that raised, leaves it as it was, and at leaves every enabled flag as it was.
C5_NamesEvolve ==
    LET old == AllRules(call.pre)
        new == AllRules(rules)
        i == CHOOSE k \in 1..Len(old) : old[k] = call.anchor
                                          /\ \A m \in 1..(k - 1) : old[m] # call.anchor
    IN  /\ call.op = "push" => new = Append(old, call.name)
        /\ (call.op = "before" /\ ~last.raised) =>
              /\ new = SubSeq(old, 1, i - 1) \o <<call.name>> \o SubSeq(old, i, Len(old))
              /\ SubSeq(rules, 1, i - 1) \o SubSeq(rules, i + 1, Len(rules)) = call.pre
              /\ new[i + 1] = call.anchor
        /\ (call.op = "after" /\ ~last.raised) =>
              /\ new = SubSeq(old, 1, i) \o <<call.name>> \o SubSeq(old, i + 1, Len(old))
              /\ SubSeq(rules, 1, i) \o SubSeq(rules, i + 2, Len(rules)) = call.pre
              /\ new[i] = call.anchor
        /\ (call.op \in {"at", "enable", "disable", "enableOnly", "getRules"} \/ last.raised) =>
              new = old
        /\ call.op = "at" =>
              \A k \in 1..Len(rules) : rules[k].enabled = call.pre[k].enabled
\* before("A", "B") on [B (disabled), A]: the new B stands between them.
C5_Witness ==
    /\ call.op = "before" /\ ~last.raised /\ call.anchor = "A" /\ call.name = "B"
    /\ AllRules(call.pre) = <<"B", "A">>
    /\ AllRules(rules) = <<"B", "B", "A">>
    /\ ~rules[1].enabled /\ rules[2].enabled

\* C6 as stated: every mutating call that completes changes what getRules returns for
\* at least one chain; a getRules call changes it for none.
C6_MutationAlwaysChanges ==
    /\ (call.op \in Mutators /\ ~last.raised) =>
          View(rules, cache) # View(call.pre, call.preCache)
    /\ call.op = "getRules" => View(rules, cache) = View(call.pre, call.preCache)

\* C6 amended: a mutating call that completes leaves the cache None, so that getRules
\* then returns the recomputation from the rules as the call left them (which may be
\* what it returned before the call); a getRules call returns what the cache, or the
\* recomputation when the cache is None, gave before it, and changes the result of
\* getRules for no chain.
C6_MutationClearsCache ==
    /\ (call.op \in Mutators /\ ~last.raised) =>
          /\ ~cache.some
          /\ View(rules, cache) = Recomputed(rules)
    /\ call.op = "getRules" =>
          /\ View(rules, cache) = View(call.pre, call.preCache)
          /\ last.ret = View(rules, cache)[call.chain]
\* enable of a rule that is enabled already, with a compiled cache before: the cache is
\* cleared and getRules returns what it did.
C6_Witness ==
    /\ call.op = "enable" /\ ~last.raised /\ last.ret # <<>>
    /\ call.preCache.some /\ call.pre = rules
    /\ View(rules, cache) = View(call.pre, call.preCache)

\* ------------------------------------------------------------- smartquotes

\* ------------------------------------------------------------------ bounds

\* The longest content of the text child of a stream with one child.
MaxText == 4
\* The largest number of children of an inline token with several children.
MaxChildren == 3

\* Characters are code points. QUOTE_RE matches ' and "; APOSTROPHE is U+2019.
SingleQuote == 39
DoubleQuote == 34
Space == 32
APOSTROPHE == 8217

\* common/utils.py isWhiteSpace
IsWhiteSpace(c) ==
    c \in (9..13) \cup {32, 160, 5760, 8239, 8287, 12288} \cup (8192..8202)
\* common/utils.py isMdAsciiPunct
IsMdAsciiPunct(c) == c \in (33..47) \cup (58..64) \cup (91..96) \cup (123..126)
\* common/utils.py isPunctChar (Unicode category P), on the characters of the model:
\* the curly quotes, the guillemets and the single angle quotes.
IsPunctChar(c) == IsMdAsciiPunct(c) \/ c \in {171, 187, 8216, 8217, 8220, 8221, 8249, 8250}

IsQuoteOrGlyph(c) == c \in {SingleQuote, DoubleQuote, 8216, 8217, 8220, 8221}

\* QUOTE_RE = ['"]
IsQuote(c) == c \in {SingleQuote, DoubleQuote}

\* QUOTE_RE.search(token.content)
HasQuote(str) == \E k \in 1..Len(str) : IsQuote(str[k])

Min(S) == CHOOSE x \in S : \A y \in S : x <= y

\* QUOTE_RE.search(text[lastIndex:]): t.start(0) + lastIndex, 0-based, or -1 for no match.
Search(text, lastIndex) ==
    LET hits == {k \in lastIndex..(Len(text) - 1) : IsQuote(text[k + 1])}
    IN  IF hits = {} THEN -1 ELSE Min(hits)

\* string[lo:hi] for 0 <= lo
PySlice(str, lo, hi) ==
    IF hi <= lo \/ lo >= Len(str) THEN <<>>
    ELSE SubSeq(str, lo + 1, IF hi > Len(str) THEN Len(str) ELSE hi)

ReplaceAtKeepsTail(str, index, ch) == PySlice(str, 0, index) \o ch \o PySlice(str, index, Len(str))

\* replaceAt: string[:index] + ch + string[index + 1 :]
ReplaceAt(str, index, ch) ==
    PySlice(str, 0, index) \o ch \o PySlice(str, index + 1, Len(str))

IsTextOrCode(tok) == tok.type \in {"text", "code_inline"}
\* token.type != "text": only text children are scanned
IsText(tok) == tok.type = "text"

IsBreak(tok) == tok.type = "softbreak" \/ tok.type = "hardbreak"

RECURSIVE WalkBackThroughBreaks(_, _)
WalkBackThroughBreaks(children, j) ==
    IF j < 0 THEN Space
    ELSE IF children[j + 1].content = <<>> THEN WalkBackThroughBreaks(children, j - 1)
    ELSE children[j + 1].content[Len(children[j + 1].content)]

\* The loop that finds the previous character in the earlier siblings, from child j
\* (0-based) down: 0x20 at a softbreak or hardbreak or when the children are exhausted,
\* children with empty content skipped.
RECURSIVE WalkBack(_, _)
WalkBack(children, j) ==
    IF j < 0 THEN Space
    ELSE IF IsBreak(children[j + 1]) THEN Space
    ELSE IF children[j + 1].content = <<>> THEN WalkBack(children, j - 1)
    ELSE children[j + 1].content[Len(children[j + 1].content)]

\* The loop that finds the next character in the later siblings, from child j on.
RECURSIVE WalkForward(_, _)
WalkForward(children, j) ==
    IF j >= Len(children) THEN Space
    ELSE IF IsBreak(children[j + 1]) THEN Space
    ELSE IF children[j + 1].content = <<>> THEN WalkForward(children, j + 1)
    ELSE children[j + 1].content[1]

\* lastChar of the quote at 0-based position q of text, the copy of child i's content.
LastChar(children, i, text, q) ==
    IF q - 1 >= 0 THEN text[q] ELSE WalkBack(children, i - 1)

\* nextChar, pos being q + 1.
NextChar(children, i, text, pos, maximum) ==
    IF pos < maximum THEN text[pos + 1] ELSE WalkForward(children, i + 1)

CanOpenCloseNoNarrowing(lastChar, nextChar, quoteChar) ==
    LET isLastPunctChar == IsMdAsciiPunct(lastChar) \/ IsPunctChar(lastChar)
        isNextPunctChar == IsMdAsciiPunct(nextChar) \/ IsPunctChar(nextChar)
        isLastWhiteSpace == IsWhiteSpace(lastChar)
        isNextWhiteSpace == IsWhiteSpace(nextChar)
        inch == nextChar = DoubleQuote /\ quoteChar = DoubleQuote
                   /\ lastChar >= 48 /\ lastChar <= 57
    IN  [canOpen |-> ~inch /\ ~isNextWhiteSpace
                       /\ ~(isNextPunctChar /\ ~(isLastWhiteSpace \/ isLastPunctChar)),
         canClose |-> ~inch /\ ~isLastWhiteSpace
                       /\ ~(isLastPunctChar /\ ~(isNextWhiteSpace \/ isNextPunctChar))]

CanOpenCloseSwapped(lastChar, nextChar, quoteChar) ==
    LET plain == CanOpenCloseNoNarrowing(lastChar, nextChar, quoteChar)
    IN  IF plain.canOpen /\ plain.canClose
        THEN [canOpen |-> IsMdAsciiPunct(nextChar) \/ IsPunctChar(nextChar),
              canClose |-> IsWhiteSpace(lastChar)]
        ELSE plain

CanOpenCloseNoInch(lastChar, nextChar, quoteChar) ==
    LET isLastPunctChar == IsMdAsciiPunct(lastChar) \/ IsPunctChar(lastChar)
        isNextPunctChar == IsMdAsciiPunct(nextChar) \/ IsPunctChar(nextChar)
        isLastWhiteSpace == IsWhiteSpace(lastChar)
        isNextWhiteSpace == IsWhiteSpace(nextChar)
        open1 == ~isNextWhiteSpace
                    /\ ~(isNextPunctChar /\ ~(isLastWhiteSpace \/ isLastPunctChar))
        close1 == ~isLastWhiteSpace
                    /\ ~(isLastPunctChar /\ ~(isNextWhiteSpace \/ isNextPunctChar))
    IN  IF open1 /\ close1
        THEN [canOpen |-> isLastPunctChar, canClose |-> isNextPunctChar]
        ELSE [canOpen |-> open1, canClose |-> close1]

\* canOpen and canClose of a quote between lastChar and nextChar.
CanOpenClose(lastChar, nextChar, quoteChar) ==
    LET isLastPunctChar == IsMdAsciiPunct(lastChar) \/ IsPunctChar(lastChar)
        isNextPunctChar == IsMdAsciiPunct(nextChar) \/ IsPunctChar(nextChar)
        isLastWhiteSpace == IsWhiteSpace(lastChar)
        isNextWhiteSpace == IsWhiteSpace(nextChar)
        open1 == IF isNextWhiteSpace THEN FALSE
                 ELSE IF isNextPunctChar /\ ~(isLastWhiteSpace \/ isLastPunctChar) THEN FALSE
                 ELSE TRUE
        close1 == IF isLastWhiteSpace THEN FALSE
                  ELSE IF isLastPunctChar /\ ~(isNextWhiteSpace \/ isNextPunctChar) THEN FALSE
                  ELSE TRUE
        \* special case: 1"" - count first quote as an inch
        inch == nextChar = DoubleQuote /\ quoteChar = DoubleQuote
                   /\ lastChar >= 48 /\ lastChar <= 57
        open2 == IF inch THEN FALSE ELSE open1
        close2 == IF inch THEN FALSE ELSE close1
    IN  IF open2 /\ close2
        THEN [canOpen |-> isLastPunctChar, canClose |-> isNextPunctChar]
        ELSE [canOpen |-> open2, canClose |-> close2]

KeepIndexAll(stack, j, thisLevel) == j

RECURSIVE KeepIndexStrict(_, _, _)
KeepIndexStrict(stack, j, thisLevel) ==
    IF j < 0 THEN -1
    ELSE IF stack[j + 1].level < thisLevel THEN j
    ELSE KeepIndexStrict(stack, j - 1, thisLevel)

\* The loop at the top of each child: the index j (0-based) such that stack[: j + 1]
\* is kept, scanning from the top for an entry with level <= thisLevel.
RECURSIVE KeepIndex(_, _, _)
KeepIndex(stack, j, thisLevel) ==
    IF j < 0 THEN -1
    ELSE IF stack[j + 1].level <= thisLevel THEN j
    ELSE KeepIndex(stack, j - 1, thisLevel)

MatchIndexAnyKind(stack, j, isSingle, thisLevel) ==
    IF j >= 0 /\ stack[j + 1].level = thisLevel THEN j ELSE -1

\* The search for the opening quote of a closing one, from entry j (0-based) down:
\* the index of the match, or -1.
RECURSIVE MatchIndex(_, _, _, _)
MatchIndex(stack, j, isSingle, thisLevel) ==
    IF j < 0 THEN -1
    ELSE IF stack[j + 1].level < thisLevel THEN -1
    ELSE IF stack[j + 1].single = isSingle /\ stack[j + 1].level = thisLevel THEN j
    ELSE MatchIndex(stack, j - 1, isSingle, thisLevel)

\* state.md.options.quotes: double open, double close, single open, single close
OpenQuote(quotes, isSingle) == IF isSingle THEN quotes[3] ELSE quotes[1]
CloseQuoteAsOpen(quotes, isSingle) == IF isSingle THEN quotes[3] ELSE quotes[1]
CloseQuote(quotes, isSingle) == IF isSingle THEN quotes[4] ELSE quotes[2]

PosAfterPairCloseOnly(pos, openQuote, closeQuote, sameToken) == pos + (Len(closeQuote) - 1)

\* pos += len(closeQuote) - 1, and += len(openQuote) - 1 when the opener is in the
\* same token
PosAfterPair(pos, openQuote, closeQuote, sameToken) ==
    pos + (Len(closeQuote) - 1) + (IF sameToken THEN Len(openQuote) - 1 ELSE 0)

StackWithMatch(stack, j) == PySlice(stack, 0, j + 1)

\* stack = stack[:j]
StackBelow(stack, j) == PySlice(stack, 0, j)

NoEvent ==
    [kind |-> "none", token |-> -1, pos |-> -1, single |-> FALSE, canOpen |-> FALSE,
     canClose |-> FALSE, lastChar |-> Space, nextChar |-> Space,
     openToken |-> -1, openPos |-> -1, depth |-> 0]

Children == tokens[frame.ti + 1].children

StartFrame == [pc |-> "start", ti |-> 0, i |-> 0, stack |-> <<>>, text |-> <<>>, pos |-> 0,
               maximum |-> 0, thisLevel |-> 0]

\* smartquotes: return when typographer is off, else start the loop over state.tokens.
Start ==
    /\ frame.pc = "start"
    /\ frame' = IF ~options.typographer THEN [frame EXCEPT !.pc = "done"]
                ELSE [frame EXCEPT !.pc = "tokens", !.ti = 0]
    /\ hist' = [hist EXCEPT !.ev = NoEvent]
    /\ UNCHANGED <<tokens, options, rulerVars>>

\* smartquotes' loop: skip a token that is not inline or whose content has no quote,
\* call process_inlines on the children of another; return after the last token.
NextToken ==
    /\ frame.pc = "tokens"
    /\ frame' =
         IF frame.ti >= Len(tokens) THEN [frame EXCEPT !.pc = "done"]
         ELSE IF tokens[frame.ti + 1].type # "inline" \/ ~HasQuote(tokens[frame.ti + 1].content)
              THEN [frame EXCEPT !.ti = frame.ti + 1]
         ELSE [frame EXCEPT !.pc = "child", !.i = 0, !.stack = <<>>]
    /\ hist' = [hist EXCEPT !.ev = NoEvent]
    /\ UNCHANGED <<tokens, options, rulerVars>>

\* process_inlines' loop over the children: truncate the stack to the child's level,
\* go on to the next child when this one is not text, else start its scan; return to
\* smartquotes after the last child.
NextChild ==
    /\ frame.pc = "child"
    /\ frame' =
         IF frame.i >= Len(Children) THEN [frame EXCEPT !.pc = "tokens", !.ti = frame.ti + 1]
         ELSE LET token == Children[frame.i + 1]
                  j == KeepIndex(frame.stack, Len(frame.stack) - 1, token.level)
                  kept == PySlice(frame.stack, 0, j + 1)
              IN  IF ~IsText(token)
                  THEN [frame EXCEPT !.thisLevel = token.level, !.stack = kept,
                                     !.i = frame.i + 1]
                  ELSE [frame EXCEPT !.thisLevel = token.level, !.stack = kept,
                                     !.text = token.content, !.pos = 0,
                                     !.maximum = Len(token.content), !.pc = "scan"]
    /\ hist' = [hist EXCEPT !.ev = NoEvent, !.seen = 0,
                        !.cut = IF frame.i >= Len(Children) THEN 0
                                ELSE Len(frame.stack) - 1
                                       - KeepIndex(frame.stack, Len(frame.stack) - 1,
                                                   Children[frame.i + 1].level)]
    /\ UNCHANGED <<tokens, options, rulerVars>>

\* The while loop ends: pos has reached maximum, or no quote is left in text.
ScanEnd ==
    /\ frame.pc = "scan"
    /\ frame.pos >= frame.maximum \/ Search(frame.text, frame.pos) = -1
    /\ frame' = [frame EXCEPT !.pc = "child", !.i = frame.i + 1]
    /\ hist' = [hist EXCEPT !.ev = NoEvent]
    /\ UNCHANGED <<tokens, options, rulerVars>>

\* One turn of the while loop, on the next quote of text.
ScanQuote ==
    /\ frame.pc = "scan"
    /\ frame.pos < frame.maximum
    /\ Search(frame.text, frame.pos) # -1
    /\ LET i == frame.i
           token == Children[i + 1]
           q == Search(frame.text, frame.pos)
           pos == q + 1
           isSingle == frame.text[q + 1] = SingleQuote
           lastChar == LastChar(Children, i, frame.text, q)
           nextChar == NextChar(Children, i, frame.text, pos, frame.maximum)
           can == CanOpenClose(lastChar, nextChar, frame.text[q + 1])
           j == IF can.canClose
                THEN MatchIndex(frame.stack, Len(frame.stack) - 1, isSingle, frame.thisLevel)
                ELSE -1
           event == [NoEvent EXCEPT !.token = i, !.pos = q, !.single = isSingle,
                                    !.depth = Len(frame.stack),
                                    !.canOpen = can.canOpen, !.canClose = can.canClose,
                                    !.lastChar = lastChar, !.nextChar = nextChar]
           SetContent(cs, k, str) == [cs EXCEPT ![k + 1].content = str]
           SetChildren(cs) == [tokens EXCEPT ![frame.ti + 1].children = cs]
       IN  IF ~can.canOpen /\ ~can.canClose
           THEN \* middle of word
                /\ tokens' = IF isSingle
                             THEN SetChildren(SetContent(Children, i,
                                      ReplaceAt(token.content, q, <<APOSTROPHE>>)))
                             ELSE tokens
                /\ frame' = [frame EXCEPT !.pos = pos]
                /\ hist' = [hist EXCEPT !.seen = hist.seen + 1,
                                        !.ev = [event EXCEPT !.kind = "midword"]]
           ELSE IF j >= 0
           THEN \* a closing quote with its opening quote on the stack
                LET item == frame.stack[j + 1]
                    openQuote == OpenQuote(options.quotes, isSingle)
                    closeQuote == CloseQuote(options.quotes, isSingle)
                    closed == SetContent(Children, i, ReplaceAt(token.content, q, closeQuote))
                    opened == SetContent(closed, item.token,
                                  ReplaceAt(closed[item.token + 1].content, item.pos, openQuote))
                    newPos == PosAfterPair(pos, openQuote, closeQuote, item.token = i)
                IN  /\ tokens' = SetChildren(opened)
                    /\ frame' = [frame EXCEPT !.pos = newPos,
                                              !.text = opened[i + 1].content,
                                              !.maximum = Len(opened[i + 1].content),
                                              !.stack = StackBelow(frame.stack, j)]
                    /\ hist' = [hist EXCEPT !.seen = hist.seen + 1,
                                            !.ev = [event EXCEPT !.kind = "pair",
                                                       !.openToken = item.token,
                                                       !.openPos = item.pos]]
           ELSE IF can.canOpen
           THEN /\ tokens' = tokens
                /\ frame' = [frame EXCEPT !.pos = pos,
                                          !.stack = Append(frame.stack,
                                              [token |-> i, pos |-> q, single |-> isSingle,
                                               level |-> frame.thisLevel])]
                /\ hist' = [hist EXCEPT !.seen = hist.seen + 1,
                                        !.ev = [event EXCEPT !.kind = "open"]]
           ELSE \* canClose with no opening quote: an apostrophe when single
                /\ tokens' = IF isSingle
                             THEN SetChildren(SetContent(Children, i,
                                      ReplaceAt(token.content, q, <<APOSTROPHE>>)))
                             ELSE tokens
                /\ frame' = [frame EXCEPT !.pos = pos]
                /\ hist' = [hist EXCEPT !.seen = hist.seen + 1,
                                        !.ev = [event EXCEPT !.kind = IF isSingle THEN "apostrophe"
                                                                              ELSE "unmatched"]]
    /\ UNCHANGED <<options, rulerVars>>

\* The core chain runs smartquotes once more on the stream the first run left.
Rerun ==
    /\ frame.pc = "done"
    /\ hist.run = 1
    /\ hist' = [hist EXCEPT !.run = 2, !.first = tokens, !.ev = NoEvent]
    /\ frame' = StartFrame
    /\ UNCHANGED <<tokens, options, rulerVars>>

QuotesNext == Start \/ NextToken \/ NextChild \/ ScanEnd \/ ScanQuote \/ Rerun

\* -------------------------------------------------------------- the inputs

Alphabet == {97, Space, SingleQuote, DoubleQuote, 46, 49}

Child(type, level, content) == [type |-> type, level |-> level, content |-> content]

\* Streams of one text child.
OneChild == {<<Child("text", 0, t)>> : t \in ListsUpTo(Alphabet, MaxText)}

\* Streams of several short children at two levels: text, a softbreak, an opening tag
\* (no content) and inline code (content that is no text).
ShortChildren ==
    {Child("text", l, <<c>>) : l \in {0, 1}, c \in {SingleQuote, DoubleQuote}}
    \cup {Child("text", 0, <<97>>), Child("text", 1, <<>>),
          Child("softbreak", 0, <<>>), Child("em_open", 0, <<>>),
          Child("code_inline", 0, <<DoubleQuote>>)}
SeveralChildren == ListsUpTo(ShortChildren, MaxChildren)

\* He said "hello" / it's / "nested 'quotes' here" / 6'2" / foo"bar"baz
Examples ==
    {<<Child("text", 0, <<72, 101, 32, 115, 97, 105, 100, 32, 34, 104, 101, 108, 108, 111, 34>>)>>,
     <<Child("text", 0, <<105, 116, 39, 115>>)>>,
     <<Child("text", 0, <<34, 110, 101, 115, 116, 101, 100, 32, 39, 113, 117, 111, 116, 101,
                          115, 39, 32, 104, 101, 114, 101, 34>>)>>,
     <<Child("text", 0, <<54, 39, 50, 34>>)>>,
     <<Child("text", 0, <<102, 111, 111, 34, 98, 97, 114, 34, 98, 97, 122>>)>>}

RECURSIVE Flatten(_)
Flatten(children) ==
    IF children = <<>> THEN <<>> ELSE Head(children).content \o Flatten(Tail(children))

\* The inline token of the children: its content is the source text, which holds the
\* quotes of the children or, when they were written as entities, does not.
Inline(children, withQuotes) ==
    [type |-> "inline", level |-> 1,
     content |-> IF withQuotes THEN Flatten(children) ELSE <<38, 59>>,
     children |-> children]
\* A block token that is not inline, with a quote in its content.
Fence == [type |-> "fence", level |-> 0, content |-> <<DoubleQuote, 97>>, children |-> <<>>]

\* options.quotes: the default curly quotes, and glyphs of two characters
\* (guillemets and angle quotes with a no-break space).
EnglishQuotes == <<<<8220>>, <<8221>>, <<8216>>, <<8217>>>>
LongQuotes == <<<<171, 160>>, <<160, 187>>, <<8249, 160>>, <<160, 8250>>>>
\* Glyphs of no character: the quotes that pair are deleted.
EmptyQuotes == <<<<>>, <<>>, <<>>, <<>>>>
QuoteSets == {EnglishQuotes, LongQuotes, EmptyQuotes}

RulerIdle ==
    /\ rules = <<>>
    /\ cache = CacheNone
    /\ last = Call("init", FALSE, <<>>)
    /\ probe = NoProbe
    /\ logging = FALSE
    /\ call = NoCall

QuotesInit ==
    /\ RulerIdle
    /\ \E children \in OneChild \cup SeveralChildren \cup Examples, withQuotes \in BOOLEAN :
          tokens = <<Fence, Inline(children, withQuotes)>>
    /\ options \in [typographer : BOOLEAN, quotes : QuoteSets]
    /\ frame = StartFrame
    /\ hist = [run |-> 1, orig |-> tokens, first |-> <<>>, ev |-> NoEvent, seen |-> 0, cut |-> 0]

SpecQuotes == QuotesInit /\ [][QuotesNext]_vars

\* ------------------------------------------------------ smartquotes: claims

TheInline == tokens[2]
OrigInline == hist.orig[2]
TheText == TheInline.children[1].content
FirstRun == hist.run = 1
Done == frame.pc = "done"

HelloExample == <<72, 101, 32, 115, 97, 105, 100, 32, 34, 104, 101, 108, 108, 111, 34>>
ItsExample == <<105, 116, 39, 115>>
NestedExample == <<34, 110, 101, 115, 116, 101, 100, 32, 39, 113, 117, 111, 116, 101,
                   115, 39, 32, 104, 101, 114, 101, 34>>
RunsOn(example) ==
    /\ FirstRun
    /\ options.typographer
    /\ OrigInline.children = <<Child("text", 0, example)>>
    /\ HasQuote(OrigInline.content)

SameButText(tok, orig) ==
    /\ tok.type = orig.type
    /\ tok.level = orig.level
    /\ tok.content = orig.content
    /\ Len(tok.children) = Len(orig.children)
    /\ \A k \in 1..Len(orig.children) :
          /\ tok.children[k].type = orig.children[k].type
          /\ tok.children[k].level = orig.children[k].level
          /\ (orig.children[k].type # "text" \/ orig.type # "inline")
                => tok.children[k].content = orig.children[k].content

\* C7: in every state of a run the token stream has the tokens of the input, in the
\* same order and with the same type and level, the content of every token that is
\* not a text child of an inline token is the input's, and with typographer off the
\* whole stream is the input.
C7_OnlyTextContentChanges ==
    /\ Len(tokens) = Len(hist.orig)
    /\ \A k \in 1..Len(hist.orig) : SameButText(tokens[k], hist.orig[k])
    /\ ~options.typographer => tokens = hist.orig

\* A finished run that rewrote a text child next to inline code holding a quote.
C7_Witness ==
    /\ Done
    /\ FirstRun
    /\ tokens # hist.orig
    /\ \E k \in 1..Len(TheInline.children) :
          /\ TheInline.children[k].type = "code_inline"
          /\ HasQuote(TheInline.children[k].content)

\* He said, double open, hello, double close
HelloResult == SubSeq(HelloExample, 1, 8) \o options.quotes[1]
                  \o SubSeq(HelloExample, 10, 14) \o options.quotes[2]
\* double open, nested, single open, quotes, single close, here, double close
NestedResult == options.quotes[1] \o SubSeq(NestedExample, 2, 8)
                   \o options.quotes[3] \o SubSeq(NestedExample, 10, 15)
                   \o options.quotes[4] \o SubSeq(NestedExample, 17, 21)
                   \o options.quotes[2]

\* C8: on "nested 'quotes' here" the single pair is rewritten while the double quotes
\* are still ASCII and the double pair is rewritten when no ASCII single quote is
\* left, the result being the text between the double glyphs with quotes between the
\* single glyphs; on He said "hello" the result has hello between the double glyphs.
C8_NestedInnerFirst ==
    /\ RunsOn(NestedExample) =>
          /\ (hist.ev.kind = "pair" /\ hist.ev.single) =>
                /\ TheText[1] = DoubleQuote
                /\ TheText[Len(TheText)] = DoubleQuote
          /\ (hist.ev.kind = "pair" /\ ~hist.ev.single) =>
                \A k \in 1..Len(TheText) : TheText[k] # SingleQuote
          /\ TheText[1] # DoubleQuote => TheText = NestedResult
          /\ Done => TheText = NestedResult
    /\ (RunsOn(HelloExample) /\ Done) => TheText = HelloResult

\* The single pair of the nested example is rewritten, the double pair is not yet.
C8_Witness ==
    /\ RunsOn(NestedExample)
    /\ hist.ev.kind = "pair"
    /\ hist.ev.single
    /\ TheText[1] = DoubleQuote
    /\ options.quotes = EnglishQuotes
    /\ TheText[9] = 8216
    /\ TheText[16] = 8217

\* C9: a turn of the scan on a quote with neither canOpen nor canClose leaves the
\* stack as it was, changes no content but the quote's own character, which becomes
\* U+2019 when it is ' and stays when it is ", and puts pos right after the quote;
\* it's ends as it, U+2019, s.
C9_MidWord ==
    [][/\ (/\ frame.pc = "scan"
           /\ hist'.ev.kind # "none"
           /\ ~hist'.ev.canOpen
           /\ ~hist'.ev.canClose)
          => LET i == frame.i
                 q == hist'.ev.pos
                 old == tokens[frame.ti + 1].children[i + 1].content
             IN  /\ frame'.stack = frame.stack
                 /\ frame'.pc = "scan"
                 /\ frame'.i = i
                 /\ frame'.pos = q + 1
                 /\ tokens' = [tokens EXCEPT ![frame.ti + 1].children[i + 1].content =
                                  [old EXCEPT ![q + 1] =
                                      IF old[q + 1] = SingleQuote THEN 8217 ELSE old[q + 1]]]
                 /\ old[q + 1] = DoubleQuote => tokens' = tokens
       /\ (RunsOn(ItsExample) /\ frame'.pc = "done")
             => tokens'[2].children[1].content = <<105, 116, 8217, 115>>]_vars

\* The ' of it's has just been replaced by U+2019 as a mid-word quote.
C9_Witness ==
    /\ RunsOn(ItsExample)
    /\ hist.ev.kind = "midword"
    /\ hist.ev.single
    /\ hist.ev.pos = 2
    /\ frame.stack = <<>>
    /\ TheText = <<105, 116, 8217, 115>>

NoQuoteLeft(stream) ==
    \A k \in 1..Len(stream) : \A c \in 1..Len(stream[k].children) :
        stream[k].children[c].type = "text" =>
            \A n \in 1..Len(stream[k].children[c].content) :
                stream[k].children[c].content[n] \notin {39, 34}

\* C10, as stated: a second run on the stream the first run left changes no content.
C10_SecondRunNoop ==
    (hist.run = 2 /\ options.typographer) => tokens = hist.first

\* C10, amended: when the first run left no ' and no " in any text child, a second
\* run on the stream it left changes no content.
C10_SecondRunNoopWhenNoQuoteLeft ==
    (hist.run = 2 /\ options.typographer /\ NoQuoteLeft(hist.first)) => tokens = hist.first

\* A finished second run on a stream whose quotes the first run had all rewritten.
C10_Witness ==
    /\ hist.run = 2
    /\ Done
    /\ options.typographer
    /\ hist.first # hist.orig
    /\ HasQuote(TheInline.content)
    /\ NoQuoteLeft(hist.first)

FeetExample == <<54, 39, 50, 34>>

\* C11, as stated: in every state of a run on 6'2" the text is still 6'2".
C11_FeetInchesUnconverted ==
    RunsOn(FeetExample) => TheText = FeetExample

\* C11, amended: on 6'2" the " after 2 is never replaced, the ' after 6 is a mid-word
\* quote and is replaced by U+2019, nothing else changes: the result is 6, U+2019, 2, ".
C11_InchKeptFootApostrophe ==
    RunsOn(FeetExample) =>
        /\ TheText \in {FeetExample, <<54, 8217, 50, 34>>}
        /\ hist.ev.kind = "midword" <=> (hist.ev.pos = 1 /\ hist.ev.single)
        /\ hist.ev.kind \in {"none", "midword", "unmatched"}
        /\ Done => TheText = <<54, 8217, 50, 34>>

\* The finished run on 6'2".
C11_Witness ==
    /\ RunsOn(FeetExample)
    /\ Done
    /\ TheText = <<54, 8217, 50, 34>>
    /\ options.quotes = EnglishQuotes

\* C12: after a call that raised KeyError the rule list, with every rule's name,
\* enabled flag, function and chains, is the list before the call.
C12_FailedCallLeavesRuler ==
    (call.op # "none" /\ last.raised) => rules = call.pre

Scanning == frame.pc \in {"scan", "child"}

\* C13, as stated: every stack entry has a level greater than or equal to the level of
\* every entry pushed after it (above it).
C13_LevelsNeverRise ==
    Scanning => \A a, b \in 1..Len(frame.stack) :
                    a < b => frame.stack[a].level >= frame.stack[b].level

\* C13, amended: every stack entry has a level less than or equal to the level of every
\* entry pushed after it: from the bottom of the stack to its top the levels never fall.
C13_LevelsNeverFall ==
    Scanning => \A a, b \in 1..Len(frame.stack) :
                    a < b => frame.stack[a].level <= frame.stack[b].level

\* A level 0 quote below a level 1 quote on the stack.
C13_Witness ==
    /\ frame.pc = "scan"
    /\ Len(frame.stack) = 2
    /\ frame.stack[1].level = 0
    /\ frame.stack[2].level = 1
    /\ frame.stack[1].token < frame.stack[2].token

\* The number of entries kept by a child of level lvl: up to the topmost entry whose
\* level is at most lvl, none when there is no such entry.
KeptUpTo(stack, lvl) ==
    IF \E k \in 1..Len(stack) : stack[k].level <= lvl
    THEN CHOOSE k \in 1..Len(stack) :
             /\ stack[k].level <= lvl
             /\ \A m \in (k + 1)..Len(stack) : stack[m].level > lvl
    ELSE 0

\* C14: the step that takes up a child, text or not, leaves of the stack exactly the
\* entries up to the topmost one whose level is at most the child's, and none of them
\* has a greater level than the child; while that child is scanned no stack entry
\* has a level greater than the child's.
C14_TruncatedFirst ==
    /\ [](frame.pc = "scan" =>
             \A k \in 1..Len(frame.stack) : frame.stack[k].level <= Children[frame.i + 1].level)
    /\ [][(frame.pc = "child" /\ frame.i < Len(Children)) =>
             LET lvl == Children[frame.i + 1].level
             IN  /\ frame'.stack = SubSeq(frame.stack, 1, KeptUpTo(frame.stack, lvl))
                 /\ \A k \in 1..Len(frame'.stack) : frame'.stack[k].level <= lvl
                 /\ frame'.thisLevel = lvl
                 /\ tokens' = tokens]_vars

\* A child that is not text has just cut a level 1 quote off the stack.
C14_Witness ==
    /\ frame.pc = "child"
    /\ frame.i >= 1
    /\ frame.i <= Len(Children)
    /\ Children[frame.i].type # "text"
    /\ hist.cut >= 1
    /\ FirstRun

\* C15: a turn of the scan that writes a pair writes both glyphs in that turn and
\* nothing else; the opener is before the closer, is the ASCII quote of the closer's
\* kind, in a child of the closer's level with no child of lower level between them;
\* it is the topmost stack entry of that kind at that level, and the stack is left
\* with the entries below it.
C15_PairsWellNested ==
    [][(frame.pc = "scan" /\ hist'.ev.kind = "pair") =>
          LET cs == tokens[frame.ti + 1].children
              i == frame.i
              q == hist'.ev.pos
              o == hist'.ev.openToken
              p == hist'.ev.openPos
              kind == hist'.ev.single
              char == IF kind THEN SingleQuote ELSE DoubleQuote
              open == IF kind THEN options.quotes[3] ELSE options.quotes[1]
              close == IF kind THEN options.quotes[4] ELSE options.quotes[2]
              lvl == cs[i + 1].level
              Upto(str, n) == SubSeq(str, 1, n)
              Past(str, n) == SubSeq(str, n + 2, Len(str))
              tops == {j \in 1..Len(frame.stack) :
                          frame.stack[j].single = kind /\ frame.stack[j].level = lvl}
              top == CHOOSE j \in tops : \A m \in tops : m <= j
              new == tokens'[frame.ti + 1].children
          IN  /\ o < i \/ (o = i /\ p < q)
              /\ cs[o + 1].type = "text"
              /\ cs[o + 1].content[p + 1] = char
              /\ cs[i + 1].content[q + 1] = char
              /\ cs[o + 1].level = lvl
              /\ \A k \in (o + 1)..(i + 1) : cs[k].level >= lvl
              /\ tops # {}
              /\ frame.stack[top].token = o
              /\ frame.stack[top].pos = p
              /\ frame'.stack = SubSeq(frame.stack, 1, top - 1)
              /\ \A k \in 1..Len(cs) : k \notin {o + 1, i + 1} => new[k] = cs[k]
              /\ IF o = i
                 THEN new[i + 1].content =
                          Upto(cs[i + 1].content, p) \o open
                             \o SubSeq(cs[i + 1].content, p + 2, q) \o close
                             \o Past(cs[i + 1].content, q)
                 ELSE /\ new[o + 1].content =
                             Upto(cs[o + 1].content, p) \o open \o Past(cs[o + 1].content, p)
                      /\ new[i + 1].content =
                             Upto(cs[i + 1].content, q) \o close \o Past(cs[i + 1].content, q)]_vars

\* A closing quote has been paired with an opener in an earlier child, and an entry
\* above the opener went off the stack with it.
C15_Witness ==
    /\ hist.ev.kind = "pair"
    /\ hist.ev.openToken < hist.ev.token
    /\ hist.ev.depth >= Len(frame.stack) + 2
    /\ FirstRun

\* The class of a character: whitespace, punctuation or neither.
ClassOf(c) ==
    IF IsWhiteSpace(c) THEN "whitespace"
    ELSE IF IsMdAsciiPunct(c) \/ IsPunctChar(c) THEN "punctuation"
    ELSE "neither"

\* The rule set on the classes of the preceding and the following character.
RuleSetOn(before, after) ==
    LET open == ~(after = "whitespace")
                   /\ ~(after = "punctuation" /\ before = "neither")
        close == ~(before = "whitespace")
                    /\ ~(before = "punctuation" /\ after = "neither")
    IN  IF open /\ close
        THEN [canOpen |-> before = "punctuation", canClose |-> after = "punctuation"]
        ELSE [canOpen |-> open, canClose |-> close]

FollowsRuleSet ==
    LET rule == RuleSetOn(ClassOf(hist.ev.lastChar), ClassOf(hist.ev.nextChar))
    IN  hist.ev.canOpen = rule.canOpen /\ hist.ev.canClose = rule.canClose

\* The first quote of 1"": a " after a digit and before a ".
InchCase ==
    /\ ~hist.ev.single
    /\ hist.ev.nextChar = 34
    /\ hist.ev.lastChar \in 48..57

FooExample == <<102, 111, 111, 34, 98, 97, 114, 34, 98, 97, 122>>

WhitespaceRules ==
    /\ hist.ev.kind = "open" => ~IsWhiteSpace(hist.ev.nextChar)
    /\ hist.ev.kind = "pair" => ~IsWhiteSpace(hist.ev.lastChar)
    /\ RunsOn(FooExample) => (TheText = FooExample /\ hist.ev.kind \in {"none", "midword"})

\* C16, as stated: for every quote the scan takes up, canOpen and canClose are what the
\* rule set gives for the classes of its preceding and following character; a quote
\* before whitespace is never pushed as an opener, one after whitespace never closes
\* a pair, and foo"bar"baz stays as it is.
C16_ClassRules ==
    /\ hist.ev.kind # "none" => FollowsRuleSet
    /\ WhitespaceRules

\* C16, amended: the same, for every quote but the first quote of 1"".
C16_ClassRulesButInch ==
    /\ (hist.ev.kind # "none" /\ ~InchCase) => FollowsRuleSet
    /\ WhitespaceRules

\* A quote between two punctuation characters: both canOpen and canClose.
C16_Witness ==
    /\ hist.ev.kind = "open"
    /\ hist.ev.canOpen
    /\ hist.ev.canClose
    /\ ClassOf(hist.ev.lastChar) = "punctuation"
    /\ ClassOf(hist.ev.nextChar) = "punctuation"

\* C17: a " after a digit and before another " has canOpen = canClose = FALSE and its
\* turn leaves the stack and every content as they were; a ' there, or a " before a "
\* after anything but a digit, keeps canOpen or canClose.
C17_InchMark ==
    [][(frame.pc = "scan" /\ hist'.ev.kind # "none" /\ hist'.ev.nextChar = 34) =>
          IF ~hist'.ev.single /\ hist'.ev.lastChar \in 48..57
          THEN /\ ~hist'.ev.canOpen
               /\ ~hist'.ev.canClose
               /\ frame'.stack = frame.stack
               /\ tokens' = tokens
               /\ frame'.pos = hist'.ev.pos + 1
          ELSE hist'.ev.canOpen \/ hist'.ev.canClose]_vars

\* The first quote of 1"" has been passed over while an opening " waits on the stack.
C17_Witness ==
    /\ hist.ev.kind = "midword"
    /\ ~hist.ev.single
    /\ hist.ev.lastChar = 49
    /\ hist.ev.nextChar = 34
    /\ Len(frame.stack) = 1
    /\ ~frame.stack[1].single

RECURSIVE CountQuotes(_)
CountQuotes(str) ==
    IF str = <<>> THEN 0
    ELSE (IF Head(str) \in {39, 34} THEN 1 ELSE 0) + CountQuotes(Tail(str))

\* The stream a run started from: the input, or what the first run left.
RunInput == IF hist.run = 2 THEN hist.first ELSE hist.orig
Rest(str, n) == SubSeq(str, n + 1, Len(str))

\* What is left to do, as a tuple of naturals in lexicographic order: runs, the
\* call's stage, tokens, the token's stage, children, the child's stage, and ASCII
\* quotes from pos on.
Left(f, h, toks) ==
    LET inside == f.pc \in {"child", "scan"}
    IN  <<2 - h.run,
          IF f.pc = "start" THEN 2 ELSE IF f.pc = "done" THEN 0 ELSE 1,
          IF f.pc \in {"tokens", "child", "scan"} THEN Len(toks) + 1 - f.ti ELSE 0,
          IF f.pc = "tokens" THEN 1 ELSE 0,
          IF inside THEN Len(toks[f.ti + 1].children) + 1 - f.i ELSE 0,
          IF f.pc = "child" THEN 1 ELSE 0,
          IF f.pc = "scan" THEN CountQuotes(Rest(f.text, f.pos)) ELSE 0>>
LexLess(a, b) ==
    \E k \in 1..Len(a) : a[k] < b[k] /\ \A m \in 1..(k - 1) : a[m] = b[m]

\* C18: every step of a run makes what is left to do smaller in a well-founded order,
\* so every run ends; while a child is scanned the quotes taken up so far and the
\* ASCII quotes from pos on are together the ASCII quotes the child had when the run
\* began, and after every turn what lies from pos on, in the scan's text and in the
\* child's content, is what lay after the quote of that turn.
C18_ScanTerminates ==
    /\ [](\A k \in 1..7 : Left(frame, hist, tokens)[k] >= 0)
    /\ [][LexLess(Left(frame', hist', tokens'), Left(frame, hist, tokens))]_vars
    /\ [](frame.pc = "scan" =>
             /\ frame.pos >= 0
             /\ frame.maximum = Len(frame.text)
             /\ hist.seen + CountQuotes(Rest(frame.text, frame.pos))
                   = CountQuotes(RunInput[frame.ti + 1].children[frame.i + 1].content))
    /\ [][(frame.pc = "scan" /\ hist'.ev.kind # "none") =>
             /\ frame'.pc = "scan"
             /\ frame.text[hist'.ev.pos + 1] \in {39, 34}
             /\ hist'.ev.pos >= frame.pos
             /\ Rest(frame'.text, frame'.pos) = Rest(frame.text, hist'.ev.pos + 1)
             /\ Rest(tokens'[frame.ti + 1].children[frame.i + 1].content, frame'.pos)
                   = Rest(frame.text, hist'.ev.pos + 1)]_vars

\* Two pairs in one child have been written with glyphs of no character and the scan
\* of the child is over.
C18_Witness ==
    /\ frame.pc = "scan"
    /\ options.quotes = EmptyQuotes
    /\ hist.seen = 4
    /\ hist.ev.kind = "pair"
    /\ hist.ev.openToken = hist.ev.token
    /\ frame.pos = frame.maximum

\* C19: every stack entry names a text child not after the current one, of the entry's
\* level, whose content has at the entry's position the ASCII quote of the entry's
\* kind; the entries are in the order of their places in the stream.
C19_StackPointsAtQuotes ==
    Scanning =>
        /\ \A k \in 1..Len(frame.stack) :
              LET e == frame.stack[k]
              IN  /\ e.token >= 0
                  /\ e.token <= frame.i
                  /\ e.token < Len(Children)
                  /\ Children[e.token + 1].type = "text"
                  /\ Children[e.token + 1].level = e.level
                  /\ e.pos >= 0
                  /\ e.pos < Len(Children[e.token + 1].content)
                  /\ Children[e.token + 1].content[e.pos + 1] = IF e.single THEN 39 ELSE 34
        /\ \A a, b \in 1..Len(frame.stack) :
              a < b => \/ frame.stack[a].token < frame.stack[b].token
                       \/ /\ frame.stack[a].token = frame.stack[b].token
                          /\ frame.stack[a].pos < frame.stack[b].pos

\* An opener still waits on the stack in a child in which a pair of two-character
\* glyphs has been written after it.
C19_Witness ==
    /\ frame.pc = "scan"
    /\ options.quotes = LongQuotes
    /\ hist.ev.kind = "pair"
    /\ hist.ev.openToken = hist.ev.token
    /\ Len(frame.stack) >= 1
    /\ frame.stack[Len(frame.stack)].token = hist.ev.token

IsBreakType(type) == type \in {"softbreak", "hardbreak"}
\* The character a sibling walk ends with: stops are the breaks and the children
\* with content, the one at index stop being the nearest.
AtStop(cs, stops, stop, first) ==
    IF stops = {} THEN 32
    ELSE IF IsBreakType(cs[stop].type) THEN 32
    ELSE IF first THEN cs[stop].content[1]
    ELSE cs[stop].content[Len(cs[stop].content)]
Stops(cs, range) == {k \in range : IsBreakType(cs[k].type) \/ cs[k].content # <<>>}
\* The preceding character of the quote at position q (0-based) of child i (0-based).
Preceding(cs, i, q) ==
    IF q > 0 THEN cs[i + 1].content[q]
    ELSE LET stops == Stops(cs, 1..i)
         IN  AtStop(cs, stops, CHOOSE k \in stops : \A m \in stops : m <= k, FALSE)
\* The following character.
Following(cs, i, q) ==
    IF q + 1 < Len(cs[i + 1].content) THEN cs[i + 1].content[q + 2]
    ELSE LET stops == Stops(cs, (i + 2)..Len(cs))
         IN  AtStop(cs, stops, CHOOSE k \in stops : \A m \in stops : k <= m, TRUE)

\* C20, as stated: the scan's lastChar and nextChar of a quote are the preceding and
\* the following character of the quote in the children as they are when the quote is
\* taken up.
C20_Neighbours ==
    [][(frame.pc = "scan" /\ hist'.ev.kind # "none") =>
          LET cs == tokens[frame.ti + 1].children
          IN  /\ hist'.ev.lastChar = Preceding(cs, frame.i, hist'.ev.pos)
              /\ hist'.ev.nextChar = Following(cs, frame.i, hist'.ev.pos)]_vars

\* C20, amended: the same, but a preceding character that the scan of this child has
\* replaced by U+2019 is still taken as the ' it was.
C20_NeighboursStaleApostrophe ==
    [][(frame.pc = "scan" /\ hist'.ev.kind # "none") =>
          LET cs == tokens[frame.ti + 1].children
              before == Preceding(cs, frame.i, hist'.ev.pos)
          IN  /\ \/ hist'.ev.lastChar = before
                 \/ /\ hist'.ev.lastChar = 39
                    /\ before = 8217
                    /\ hist'.ev.pos > 0
              /\ ClassOf(hist'.ev.lastChar) = ClassOf(before)
              /\ hist'.ev.nextChar = Following(cs, frame.i, hist'.ev.pos)]_vars

\* The first character of a child is a quote whose preceding character is the a of an
\* earlier text child, found behind a child with no content.
C20_Witness ==
    /\ hist.ev.kind # "none"
    /\ hist.ev.pos = 0
    /\ hist.ev.token = 2
    /\ hist.ev.lastChar = 97
    /\ hist.ev.nextChar = 32
    /\ OrigInline.children[2].content = <<>>

====
